---- MODULE Spec2Model ----
(***************************************************************************)
(* Model of aggregator.py: the SQLite store (podcasts, rss_sources), the   *)
(* feed ingestion handler fetch_and_store_podcasts, update_feeds and the   *)
(* feed discovery find_podcast_rss.  The Add Feed button of                *)
(* search_rss_feeds is offered only for the feeds find_podcast_rss         *)
(* returns, and it returns none: the button's handler never runs.          *)
(***************************************************************************)
EXTENDS Integers, Sequences, FiniteSets, TLC

VARIABLES db, last, ingested, lastw, web, session, disc, tx, lock, serial

vars == <<db, last, ingested, lastw, web, session, disc, tx, lock, serial>>

(***************************************************************************)
(* Bounds of the model.                                                    *)
(***************************************************************************)
MaxLinks == 2
MaxCalls == 2
NProcs == 2

(***************************************************************************)
(* Program constants.                                                      *)
(***************************************************************************)
MAX_FEED_SIZE == 15000000

\* optional values: <<>> is an absent key, <<v>> a present one
Get(opt, default) == IF opt = <<>> THEN default ELSE opt[1]

\* Python truthiness of a string-or-None value
Truthy(s) == s # ""

\* str.startswith
StartsWith(s, prefix) ==
    /\ Len(s) >= Len(prefix)
    /\ SubSeq(s, 1, Len(prefix)) = prefix

AudioPrefix == <<"a", "u", "d", "i", "o", "/">>
AudioMpeg == <<"a", "u", "d", "i", "o", "/", "m", "p", "3">>
VideoMp4 == <<"v", "i", "d", "e", "o", "/", "m", "p", "4">>
AudioNoSlash == <<"a", "u", "d", "i", "o">>

\* enc.get('type', '').startswith('audio/')
IsAudioEnc(enc) == StartsWith(Get(enc.type, <<>>), AudioPrefix)

(***************************************************************************)
(* Time.  datetime values are <<y, mo, d, h, mi, s, microsecond>>;          *)
(* isoformat() omits the microsecond part when it is zero.                 *)
(***************************************************************************)
Now(t) == <<2026, 10, 30, 0, 0, 0, t>>

IsoFormat(dt) == IF dt[7] = 0 THEN SubSeq(dt, 1, 6) ELSE dt

\* datetime(*published_parsed[:6])
DateTimeOf(pp) == SubSeq(pp, 1, 6) \o <<0>>

\* what the calls of datetime.now() made by one call of a handler return:
\* the k-th of them returns Now(now[k]).  datetime.now() is the local wall
\* time, which can also step back between two readings.  Two instants, a
\* microsecond apart
Times == {0, 1}

Readings(n) == [1..n -> Times]


(***************************************************************************)
(* Inputs: feed entries as the syndication parser exposes them.  A field   *)
(* is an optional value (<<>> absent).  published_parsed, when present, is *)
(* the 9-field time tuple, or <<>> where the parser stored None.           *)
(***************************************************************************)
Enc(type, href) == [type |-> type, href |-> href]

Entry(id, guid, title, summary, encs, pp) ==
    [id |-> id, guid |-> guid, title |-> title, summary |-> summary,
     enclosures |-> encs, published_parsed |-> pp]

D1 == <<2024, 1, 2, 3, 4, 5, 1, 2, 0>>

EntryA ==
    Entry(<<"g1">>, <<>>, <<"t1">>, <<"s1">>,
          <<Enc(<<AudioMpeg>>, <<"a1">>)>>, <<D1>>)

\* guid only under the key 'guid', no date, the audio enclosure not first
EntryB ==
    Entry(<<>>, <<"g1">>, <<"t2">>, <<>>,
          <<Enc(<<VideoMp4>>, <<"v1">>), Enc(<<AudioMpeg>>, <<"a2">>),
            Enc(<<AudioMpeg>>, <<"a1">>)>>, <<>>)

\* no title
EntryG ==
    Entry(<<"g2">>, <<>>, <<>>, <<"s1">>,
          <<Enc(<<AudioMpeg>>, <<"a1">>)>>, <<D1>>)

\* no guid
EntryD ==
    Entry(<<>>, <<>>, <<"t1">>, <<>>,
          <<Enc(<<AudioMpeg>>, <<"a1">>)>>, <<D1>>)

\* no enclosure whose type starts with audio/
EntryE ==
    Entry(<<"g2">>, <<>>, <<"t1">>, <<>>,
          <<Enc(<<VideoMp4>>, <<"v1">>), Enc(<<>>, <<"a1">>),
            Enc(<<AudioNoSlash>>, <<"a2">>)>>, <<D1>>)

\* an audio enclosure that carries no url
EntryF ==
    Entry(<<"g2">>, <<>>, <<"t2">>, <<>>,
          <<Enc(<<AudioMpeg>>, <<>>)>>, <<D1>>)

\* no date either, another guid
EntryH ==
    Entry(<<"g2">>, <<>>, <<"t1">>, <<>>,
          <<Enc(<<AudioMpeg>>, <<"a1">>)>>, <<>>)

Feeds ==
    { <<>>, <<EntryA>>, <<EntryB>>, <<EntryG>>, <<EntryD>>, <<EntryE>>,
      <<EntryF>>, <<EntryA, EntryB>>, <<EntryA, EntryG>>, <<EntryD, EntryG>>,
      <<EntryE, EntryA>>, <<EntryA, EntryF>>, <<EntryH>>,
      <<EntryB, EntryH>> }

\* an HTTP response and what the feed parser makes of its body
Response(exc, status, size, bozo, entries) ==
    [exc |-> exc, status |-> status, size |-> size, bozo |-> bozo,
     entries |-> entries]

Responses ==
    {Response(FALSE, 200, 1000, FALSE, f) : f \in Feeds}
    \cup {Response(TRUE, 0, 0, FALSE, <<>>),
          Response(FALSE, 404, 1000, FALSE, <<>>),
          Response(FALSE, 200, MAX_FEED_SIZE, FALSE, <<EntryA>>),
          Response(FALSE, 200, MAX_FEED_SIZE + 1, FALSE, <<EntryA>>),
          Response(FALSE, 200, 1000, TRUE, <<EntryA>>)}

FeedUrls == {"f1", "f2"}

(***************************************************************************)
(* The store: two tables in rowid order and their AUTOINCREMENT counters   *)
(* (sqlite_sequence).                                                      *)
(***************************************************************************)
init_db == [podcasts |-> <<>>, rss_sources |-> <<>>, pseq |-> 0, rseq |-> 0]

KeepOthers(rows, key, val) ==
    LET Other(r) == r[key] # val IN SelectSeq(rows, Other)

\* INSERT OR IGNORE: the row already holding the guid stays
InsertOrIgnorePodcast(w, title, description, audio_url, guid, feed_url, pub_date) ==
    IF \E i \in 1..Len(w.podcasts) : w.podcasts[i].guid = guid THEN w
    ELSE [w EXCEPT
            !.podcasts = Append(w.podcasts,
                                [id |-> w.pseq + 1, title |-> title,
                                 description |-> description,
                                 audio_url |-> audio_url, guid |-> guid,
                                 feed_url |-> feed_url, pub_date |-> pub_date]),
            !.pseq = w.pseq + 1]

\* INSERT OR REPLACE INTO podcasts: guid is UNIQUE, so the row holding the
\* guid is deleted and the new row gets the next AUTOINCREMENT id
InsertOrReplacePodcast(w, title, description, audio_url, guid, feed_url, pub_date) ==
    [w EXCEPT
       !.podcasts = Append(KeepOthers(w.podcasts, "guid", guid),
                           [id |-> w.pseq + 1, title |-> title,
                            description |-> description,
                            audio_url |-> audio_url, guid |-> guid,
                            feed_url |-> feed_url, pub_date |-> pub_date]),
       !.pseq = w.pseq + 1]

\* a plain INSERT into a table whose url is not UNIQUE
InsertSourceAgain(w, url, last_updated) ==
    [w EXCEPT
       !.rss_sources = Append(w.rss_sources,
                              [id |-> w.rseq + 1, url |-> url,
                               last_updated |-> last_updated]),
       !.rseq = w.rseq + 1]

\* INSERT OR REPLACE INTO rss_sources: url is UNIQUE
InsertOrReplaceSource(w, url, last_updated) ==
    [w EXCEPT
       !.rss_sources = Append(KeepOthers(w.rss_sources, "url", url),
                              [id |-> w.rseq + 1, url |-> url,
                               last_updated |-> last_updated]),
       !.rseq = w.rseq + 1]

\* conn.commit(): the work of the transaction becomes the committed store
Commit(committed, work) == work

\* every statement committed as it ran: nothing to undo
KeepWork(committed, work) == work

\* an exception leaves the block: the open transaction is rolled back
Rollback(committed, work) == committed

(***************************************************************************)
(* fetch_and_store_podcasts, one entry of the loop.                        *)
(***************************************************************************)
\* entry.get('id') or entry.get('guid')
Guid(entry) ==
    IF Truthy(Get(entry.id, "")) THEN Get(entry.id, "") ELSE Get(entry.guid, "")

\* index of the first enclosure whose type starts with audio/, 0 if none
RECURSIVE FirstAudio(_, _)
FirstAudio(encs, i) ==
    IF i > Len(encs) THEN 0
    ELSE IF IsAudioEnc(encs[i]) THEN i
    ELSE FirstAudio(encs, i + 1)

\* the audio enclosure loop: enc.href raises AttributeError when the
\* enclosure has no href
AudioUrl(entry) ==
    LET k == FirstAudio(entry.enclosures, 1)
    IN IF k = 0 THEN [raised |-> FALSE, url |-> ""]
       ELSE IF entry.enclosures[k].href = <<>> THEN [raised |-> TRUE, url |-> ""]
       ELSE [raised |-> FALSE, url |-> entry.enclosures[k].href[1]]

\* the publication date: None[:6] raises TypeError
PubDate(entry, t) ==
    IF entry.published_parsed = <<>>
    THEN [raised |-> FALSE, text |-> IsoFormat(Now(t))]
    ELSE IF entry.published_parsed[1] = <<>>
    THEN [raised |-> TRUE, text |-> <<>>]
    ELSE [raised |-> FALSE, text |-> IsoFormat(DateTimeOf(entry.published_parsed[1]))]

\* what one pass of the loop body does: "skip", "raise" or "upsert"
EntryOutcome(entry) ==
    IF ~Truthy(Guid(entry)) THEN "skip"
    ELSE IF AudioUrl(entry).raised THEN "raise"
    ELSE IF ~Truthy(AudioUrl(entry).url) THEN "skip"
    ELSE IF PubDate(entry, 0).raised THEN "raise"
    ELSE "upsert"

UpsertEntry(w, feed_url, entry, t) ==
    InsertOrReplacePodcast(w, Get(entry.title, "No Title"),
                           Get(entry.summary, ""), AudioUrl(entry).url,
                           Guid(entry), feed_url, PubDate(entry, t).text)


(***************************************************************************)
(* fetch_and_store_podcasts as a whole.  now holds what the calls of       *)
(* datetime.now() return, in the order the call makes them: one for each   *)
(* entry it upserts that has no publication date, one for rss_sources.     *)
(* failAt = k > 0 makes the k-th store statement of the call (episode      *)
(* upserts, then the rss_sources upsert, then the commit) raise            *)
(* sqlite3.Error; 0 is no storage failure.  n counts the statements        *)
(* executed, k the readings of the clock taken.                            *)
(***************************************************************************)
Undated(entry) == entry.published_parsed = <<>>

RECURSIVE EntryLoop(_, _, _, _, _, _, _, _)
EntryLoop(w, feed_url, entries, i, now, failAt, n, k) ==
    IF i > Len(entries) THEN [raised |-> FALSE, w |-> w, n |-> n, k |-> k]
    ELSE LET o == EntryOutcome(entries[i])
             k2 == IF Undated(entries[i]) THEN k + 1 ELSE k
             t == IF Undated(entries[i]) THEN now[k2] ELSE 0
         IN IF o = "skip"
            THEN EntryLoop(w, feed_url, entries, i + 1, now, failAt, n, k)
            ELSE IF o = "raise"
            THEN [raised |-> TRUE, w |-> w, n |-> n, k |-> k]
            ELSE IF failAt = n + 1
            THEN [raised |-> TRUE, w |-> w, n |-> n, k |-> k2]
            ELSE EntryLoop(UpsertEntry(w, feed_url, entries[i], t), feed_url,
                           entries, i + 1, now, failAt, n + 1, k2)

\* requests.get raised, or raise_for_status did
FetchFails(resp) == resp.exc \/ (resp.status >= 400 /\ resp.status < 600)

\* the part of the handler before the store is opened rejects the response
Rejected(resp) ==
    \/ FetchFails(resp)
    \/ resp.size > MAX_FEED_SIZE
    \/ resp.bozo

WritePhase(d, feed_url, resp, now, failAt) ==
    LET loop == EntryLoop(d, feed_url, resp.entries, 1, now, failAt, 0, 0)
    IN IF loop.raised \/ failAt = loop.n + 1 \/ failAt = loop.n + 2
       THEN [ok |-> FALSE, db |-> Rollback(d, loop.w)]
       ELSE [ok |-> TRUE,
             db |-> Commit(d, InsertOrReplaceSource(loop.w, feed_url,
                                                    IsoFormat(Now(now[loop.k + 1]))))]

fetch_and_store_podcasts(d, feed_url, resp, now, failAt) ==
    IF Rejected(resp) THEN [ok |-> FALSE, db |-> d]
    ELSE WritePhase(d, feed_url, resp, now, failAt)

(***************************************************************************)
(* What the specification calls a valid podcast feed (Feed Validator):     *)
(* fetched, within the size ceiling, parsed, and at least one entry with   *)
(* an enclosure whose type begins with audio/.                             *)
(***************************************************************************)
HasAudioEnclosure(entry) ==
    \E k \in 1..Len(entry.enclosures) : IsAudioEnc(entry.enclosures[k])

Classify(resp) ==
    IF resp.exc THEN "neterr"
    ELSE IF resp.status >= 400 THEN "status"
    ELSE IF resp.size > MAX_FEED_SIZE THEN "oversize"
    ELSE IF resp.bozo THEN "bozo"
    ELSE IF resp.entries = <<>> THEN "empty"
    ELSE IF \A i \in 1..Len(resp.entries) : ~HasAudioEnclosure(resp.entries[i])
    THEN "noaudio"
    ELSE "valid"

\* an enclosure whose type begins with audio/ and that names its file
HasAudioUrl(entry) ==
    \E k \in 1..Len(entry.enclosures) :
        /\ IsAudioEnc(entry.enclosures[k])
        /\ entry.enclosures[k].href # <<>>

\* guids of the entries that carry a guid and an audio/ enclosure with a url
GuidsWithBoth(resp) ==
    {Guid(resp.entries[i]) : i \in {j \in 1..Len(resp.entries) :
        Truthy(Guid(resp.entries[j])) /\ HasAudioUrl(resp.entries[j])}}

(***************************************************************************)
(* History kept for the properties: the last completed call, the feed URLs *)
(* whose ingest returned True, and per guid the entry most recently        *)
(* written by a committed ingest.                                          *)
(***************************************************************************)
Guids == {"g1", "g2"}

NoCall ==
    [seq |-> 0, op |-> "none", url |-> "", ok |-> FALSE, n |-> 0,
     class |-> "none", both |-> {}, stor |-> FALSE, existed |-> FALSE]

\* index of the last entry of the feed that the loop upserts under guid g
RECURSIVE LastUpsertOf(_, _, _)
LastUpsertOf(entries, g, i) ==
    IF i = 0 THEN 0
    ELSE IF EntryOutcome(entries[i]) = "upsert" /\ Guid(entries[i]) = g THEN i
    ELSE LastUpsertOf(entries, g, i - 1)

\* the reading of the clock that entry i of the feed got, 0 when it is dated
ReadingOf(entries, i, now) ==
    IF Undated(entries[i])
    THEN now[Cardinality({j \in 1..i : /\ EntryOutcome(entries[j]) = "upsert"
                                       /\ Undated(entries[j])})]
    ELSE 0

NoteWrites(lw, feed_url, resp, now) ==
    [g \in Guids |->
        LET k == LastUpsertOf(resp.entries, g, Len(resp.entries))
        IN IF k = 0 THEN lw[g]
           ELSE <<[feed_url |-> feed_url, entry |-> resp.entries[k],
                   t |-> ReadingOf(resp.entries, k, now),
                   over |-> IF lw[g] = <<>> THEN ""
                            ELSE lw[g][1].feed_url]>>]

\* the control flow of the loop does not depend on what the clock shows
DryRun(resp, failAt) ==
    EntryLoop(init_db, "", resp.entries, 1,
              [k \in 1..(Len(resp.entries) + 1) |-> 0], failAt, 0, 0)

\* statements the call executed before it ended, and whether the injected
\* storage failure was the one that ended it
Executed(resp, failAt) ==
    IF Rejected(resp) THEN 0 ELSE DryRun(resp, failAt).n

StorageFailed(resp, failAt) ==
    /\ ~Rejected(resp)
    /\ failAt > 0
    /\ failAt \in {DryRun(resp, failAt).n + 1, DryRun(resp, failAt).n + 2}

\* how often the call reads the clock: the argument of the rss_sources
\* statement is evaluated before the statement runs
NowCalls(resp, failAt) ==
    IF Rejected(resp) THEN 0
    ELSE DryRun(resp, failAt).k + (IF DryRun(resp, failAt).raised THEN 0 ELSE 1)

\* the store statements a response can lead to: its upserts, the
\* rss_sources upsert and the commit
FailPoints(resp) ==
    IF Rejected(resp) THEN {0}
    ELSE IF DryRun(resp, 0).raised THEN 0..DryRun(resp, 0).n
    ELSE 0..(DryRun(resp, 0).n + 2)

\* the inputs of a call: what the fetch returns and where the store fails
Call(resp, failAt) ==
    [resp |-> resp, failAt |-> failAt, n |-> Executed(resp, failAt),
     class |-> Classify(resp), both |-> GuidsWithBoth(resp),
     stor |-> StorageFailed(resp, failAt), nows |-> NowCalls(resp, failAt)]

Calls == {Call(resp, f) : resp \in Responses, f \in 0..4}

CallsIngest == {c \in Calls : c.failAt \in FailPoints(c.resp)}

\* what the clock can show to the calls
NowSeqs == UNION {Readings(c.nows) : c \in Calls}

\* the URL has a row in rss_sources
SourceExists(d, feed) == \E i \in 1..Len(d.rss_sources) : d.rss_sources[i].url = feed

CallRecord(op, feed_url, c, ok) ==
    [seq |-> last.seq + 1, op |-> op, url |-> feed_url, ok |-> ok, n |-> c.n,
     class |-> c.class, both |-> c.both, stor |-> c.stor,
     existed |-> SourceExists(db, feed_url)]

\* update_feeds is not running
NoSession == [updating |-> FALSE, feeds |-> <<>>]

(***************************************************************************)
(* Actions of the store specification: calls of fetch_and_store_podcasts.  *)
(* The store statements of a call run in one transaction, which holds the  *)
(* store's write lock from its first statement to its end, so the call     *)
(* acts on the committed store in one step; what reaches it from outside   *)
(* are its inputs: the response, the readings of the clock (taken before   *)
(* the statements, possibly long before) and the statement that fails      *)
(* (among them the first one, when another connection keeps the lock).     *)
(* SpecConc has the calls statement by statement.  MaxCalls bounds the     *)
(* calls of a run.                                                         *)
(***************************************************************************)
Ingest(feed_url, c, now) ==
    /\ tx.calls < MaxCalls
    /\ Len(now) = c.nows
    /\ \E r \in {fetch_and_store_podcasts(db, feed_url, c.resp, now, c.failAt)} :
          /\ db' = r.db
          /\ last' = CallRecord("ingest", feed_url, c, r.ok)
          /\ ingested' = IF r.ok THEN ingested \cup {feed_url} ELSE ingested
          /\ lastw' = IF r.ok THEN NoteWrites(lastw, feed_url, c.resp, now)
                      ELSE lastw
    /\ tx' = [tx EXCEPT !.calls = tx.calls + 1]
    /\ UNCHANGED <<web, session, disc, lock, serial>>

Init ==
    /\ db = init_db
    /\ last = NoCall
    /\ ingested = {}
    /\ lastw = [g \in Guids |-> <<>>]
    /\ web = <<>>
    /\ session = NoSession
    /\ disc = <<>>
    /\ tx = [calls |-> 0, of |-> <<>>]
    /\ lock = 0
    /\ serial = init_db

Next ==
    \E u \in FeedUrls, c \in CallsIngest, now \in NowSeqs : Ingest(u, c, now)

Spec == Init /\ [][Next]_vars


(***************************************************************************)
(* Properties of the store specification.                                  *)
(***************************************************************************)
RowsWithGuid(d, g) == {i \in 1..Len(d.podcasts) : d.podcasts[i].guid = g}

RowsWithUrl(d, u) == {i \in 1..Len(d.rss_sources) : d.rss_sources[i].url = u}

\* the step completes a call of a handler
IsCall == last'.seq # last.seq

\* the call the step completes ran fetch_and_store_podcasts
IsIngest == IsCall /\ last'.op = "ingest"

\* href of the first enclosure of the entry whose type begins with audio/
FirstAudioHref(entry) ==
    LET k == CHOOSE k \in 1..Len(entry.enclosures) :
                /\ IsAudioEnc(entry.enclosures[k])
                /\ \A j \in 1..(k - 1) : ~IsAudioEnc(entry.enclosures[j])
    IN entry.enclosures[k].href[1]

\* the values the specification gives the Episode of an entry ingested at t
RowMatches(r, w) ==
    /\ r.title = (IF w.entry.title = <<>> THEN "No Title" ELSE w.entry.title[1])
    /\ r.description = (IF w.entry.summary = <<>> THEN "" ELSE w.entry.summary[1])
    /\ r.audio_url = FirstAudioHref(w.entry)
    /\ r.feed_url = w.feed_url
    /\ r.pub_date = (IF w.entry.published_parsed = <<>>
                     THEN (IF w.t = 0 THEN <<2026, 10, 30, 0, 0, 0>>
                           ELSE <<2026, 10, 30, 0, 0, 0, w.t>>)
                     ELSE SubSeq(w.entry.published_parsed[1], 1, 6))

\* C1: at most one Episode row per guid, and the row holds the values of the
\* most recent committed ingest that wrote the guid, whatever feed it was in
C1_LastWriteWins ==
    /\ \A i \in 1..Len(db.podcasts) : db.podcasts[i].guid \in Guids
    /\ \A g \in Guids :
          /\ Cardinality(RowsWithGuid(db, g)) <= 1
          /\ (RowsWithGuid(db, g) = {}) <=> (lastw[g] = <<>>)
          /\ \A i \in RowsWithGuid(db, g) : RowMatches(db.podcasts[i], lastw[g][1])

\* a guid written from one feed and then, with another title, from the other
C1_Witness ==
    /\ lastw["g1"] # <<>>
    /\ lastw["g1"][1].feed_url = "f2"
    /\ lastw["g1"][1].over = "f1"
    /\ lastw["g1"][1].entry.title = <<"t2">>
    /\ Cardinality(RowsWithGuid(db, "g1")) = 1

\* C2: a failed ingest leaves the committed store as it was; a successful one
\* makes the rss_sources row and every episode it upserted visible together
C2_Atomic ==
    [][IsCall =>
         /\ ~last'.ok => db' = db
         /\ last'.ok =>
              /\ \E i \in RowsWithUrl(db', last'.url) :
                    db'.rss_sources[i].id > db.rseq
              /\ \A g \in last'.both :
                    \E i \in RowsWithGuid(db', g) :
                       /\ db'.podcasts[i].id > db.pseq
                       /\ db'.podcasts[i].feed_url = last'.url]_vars

\* an ingest that failed after an episode upsert of its batch had executed
C2_Witness ==
    /\ last.op = "ingest"
    /\ ~last.ok
    /\ last.n >= 1
    /\ last.stor

\* C5 as claimed: an ingest of a feed that is not a valid podcast feed
\* returns failure and leaves the store untouched
C5_InvalidFeedRejected ==
    [][(IsIngest /\ last'.class # "valid")
          => (~last'.ok /\ db' = db)]_vars

\* C10 as claimed: in an ingest that reaches the store and meets no storage
\* failure every entry with a guid and an audio enclosure is upserted, and
\* every Episode row has a non-empty guid and audio_url
C10_MalformedSkipped ==
    [][(IsIngest /\ ~last'.stor
          /\ last'.class \in {"empty", "noaudio", "valid"})
          => /\ \A g \in last'.both :
                   \E i \in RowsWithGuid(db', g) : db'.podcasts[i].id > db.pseq
             /\ \A i \in 1..Len(db'.podcasts) :
                   /\ db'.podcasts[i].guid # ""
                   /\ db'.podcasts[i].audio_url # ""]_vars

SourceUrlsUnique ==
    /\ \A u \in FeedUrls : Cardinality(RowsWithUrl(db, u)) = (IF u \in ingested THEN 1 ELSE 0)
    /\ \A i \in 1..Len(db.rss_sources) : db.rss_sources[i].url \in FeedUrls

\* C8 as claimed: one rss_sources row per ingested URL, and a call for a URL
\* that has a row adds no row and changes nothing in it but last_updated
C8_OneRowPerUrl ==
    /\ []SourceUrlsUnique
    /\ [][(IsCall /\ last'.existed)
            => /\ Len(db'.rss_sources) = Len(db.rss_sources)
               /\ \A i \in RowsWithUrl(db, last'.url) :
                     \E j \in RowsWithUrl(db', last'.url) :
                        db'.rss_sources[j] =
                           [db.rss_sources[i] EXCEPT
                              !.last_updated = db'.rss_sources[j].last_updated]]_vars

\* C8 amended: ... changes nothing in it but last_updated and the surrogate id
C8_OneRowPerUrlNewId ==
    /\ []SourceUrlsUnique
    /\ [][(IsCall /\ last'.existed)
            => /\ Len(db'.rss_sources) = Len(db.rss_sources)
               /\ \A i \in RowsWithUrl(db, last'.url) :
                     \E j \in RowsWithUrl(db', last'.url) :
                        db'.rss_sources[j] =
                           [db.rss_sources[i] EXCEPT
                              !.last_updated = db'.rss_sources[j].last_updated,
                              !.id = db'.rss_sources[j].id]]_vars

\* a successful ingest of a URL that already had its row
C8_Witness ==
    /\ last.op = "ingest"
    /\ last.ok
    /\ last.existed
    /\ Cardinality(RowsWithUrl(db, last.url)) = 1


(***************************************************************************)
(* Refreshing unchanged feeds: what each feed URL serves is fixed at the   *)
(* start (web).  A feed gets its rss_sources row by a call of              *)
(* fetch_and_store_podcasts, and update_feeds ingests the URLs that have a *)
(* row.                                                                    *)
(***************************************************************************)
\* SELECT url FROM rss_sources, without ORDER BY: SQLite scans the UNIQUE
\* index on url, so the URLs come in the order of their text
UrlOrder == <<"f1", "f2">>

SelectUrls(d) == LET Stored(u) == SourceExists(d, u) IN SelectSeq(UrlOrder, Stored)

\* what the URLs serve: feeds of Feeds
RefreshFeeds ==
    Feeds \ {<<EntryG>>, <<EntryD>>, <<EntryE>>, <<EntryF>>, <<EntryD, EntryG>>}

InitRefresh ==
    /\ db = init_db
    /\ last = NoCall
    /\ ingested = {}
    /\ lastw = [g \in Guids |-> <<>>]
    /\ web \in [FeedUrls -> {Response(FALSE, 200, 1000, FALSE, f) : f \in RefreshFeeds}]
    /\ session = NoSession
    /\ disc = <<>>
    /\ tx = [calls |-> 0, of |-> <<>>]
    /\ lock = 0
    /\ serial = init_db

\* a call of fetch_and_store_podcasts, the feed serving what it serves; the
\* store can fail at any statement of the call
IngestServed(feed_url, c, now) ==
    /\ c.resp = web[feed_url]
    /\ Ingest(feed_url, c, now)

\* update_feeds up to its loop: no row, no work
UpdateStart ==
    /\ tx.calls < MaxCalls
    /\ ~session.updating
    /\ session' = [session EXCEPT !.updating = SelectUrls(db) # <<>>,
                                  !.feeds = SelectUrls(db)]
    /\ tx' = [tx EXCEPT !.calls = tx.calls + 1]
    /\ UNCHANGED <<db, last, ingested, lastw, web, disc, lock, serial>>

\* one pass of the loop of update_feeds: a call that fails, at the store or
\* elsewhere, returns False and the loop goes on
IngestUnchanged(c, now) ==
    /\ session.updating
    /\ c.resp = web[Head(session.feeds)]
    /\ Len(now) = c.nows
    /\ \E feed_url \in {Head(session.feeds)} :
       \E r \in {fetch_and_store_podcasts(db, feed_url, c.resp, now, c.failAt)} :
             /\ db' = r.db
             /\ last' = CallRecord("ingest", feed_url, c, r.ok)
             /\ ingested' = IF r.ok THEN ingested \cup {feed_url} ELSE ingested
             /\ lastw' = IF r.ok THEN NoteWrites(lastw, feed_url, c.resp, now)
                         ELSE lastw
    /\ session' = [session EXCEPT !.updating = Tail(session.feeds) # <<>>,
                                  !.feeds = Tail(session.feeds)]
    /\ UNCHANGED <<web, disc, tx, lock, serial>>

NextRefresh ==
    \/ \E u \in FeedUrls, c \in CallsIngest, now \in NowSeqs :
          IngestServed(u, c, now)
    \/ UpdateStart
    \/ \E c \in CallsIngest, now \in NowSeqs : IngestUnchanged(c, now)

SpecRefresh == InitRefresh /\ [][NextRefresh]_vars

EpisodeFields(d) ==
    {[guid |-> d.podcasts[i].guid, title |-> d.podcasts[i].title,
      description |-> d.podcasts[i].description,
      audio_url |-> d.podcasts[i].audio_url,
      feed_url |-> d.podcasts[i].feed_url,
      pub_date |-> d.podcasts[i].pub_date] : i \in 1..Len(d.podcasts)}

\* C3 as claimed: a second successful ingest of the same URL, right after
\* the first and with the same content, leaves the guid, title, description,
\* audio_url, feed_url and pub_date of every Episode row as they were
C3_Idempotent ==
    [][(IsIngest /\ last.op = "ingest" /\ last.ok
          /\ last'.ok /\ last'.url = last.url)
          => EpisodeFields(db') = EpisodeFields(db)]_vars


(***************************************************************************)
(* find_podcast_rss.  A URL is <<origin, path segments>>; an href is       *)
(* absolute, root-relative ("/a.xml") or relative ("a.xml").               *)
(***************************************************************************)
Url(origin, path) == <<origin, path>>

Href(kind, origin, path) == [kind |-> kind, origin |-> origin, path |-> path]

\* urllib.parse.urljoin
urljoin(base, href) ==
    IF href.kind = "abs" THEN Url(href.origin, href.path)
    ELSE IF href.kind = "root" THEN Url(base[1], href.path)
    ELSE Url(base[1],
             (IF base[2] = <<>> THEN <<>> ELSE SubSeq(base[2], 1, Len(base[2]) - 1))
                \o href.path)

\* re.search of a literal in a string
Contains(str, sub) ==
    \E k \in 1..(Len(str) - Len(sub) + 1) : SubSeq(str, k, k + Len(sub) - 1) = sub

\* type=re.compile(r'(rss|xml|atom)'): a link without a type never matches
TypeMatches(link) ==
    /\ link.type # <<>>
    /\ \/ Contains(link.type[1], <<"r", "s", "s">>)
       \/ Contains(link.type[1], <<"x", "m", "l">>)
       \/ Contains(link.type[1], <<"a", "t", "o", "m">>)

RssType == <<"a", "p", "p", "l", "i", "c", "a", "t", "i", "o", "n", "/", "r", "s", "s", "+", "x", "m", "l">>
AtomType == <<"a", "p", "p", "l", "i", "c", "a", "t", "i", "o", "n", "/", "a", "t", "o", "m", "+", "x", "m", "l">>
CssType == <<"t", "e", "x", "t", "/", "c", "s", "s">>

Link(type, href) == [type |-> type, href |-> href]

LinkPool ==
    { Link(<<RssType>>, <<Href("root", "", <<"a.xml">>)>>),
      Link(<<AtomType>>, <<Href("rel", "", <<"a.xml">>)>>),
      Link(<<RssType>>, <<Href("root", "", <<"feed">>)>>),
      Link(<<CssType>>, <<Href("root", "", <<"site.css">>)>>),
      Link(<<RssType>>, <<>>) }

PageUrls == {Url("https://ex.com", <<>>), Url("https://ex.com", <<"show", "page">>)}

\* the <link> elements of a page: up to MaxLinks of them
RECURSIVE SeqsUpTo(_, _)
SeqsUpTo(S, n) ==
    IF n = 0 THEN {<<>>}
    ELSE LET shorter == SeqsUpTo(S, n - 1)
         IN shorter \cup {Append(q, x) : q \in shorter, x \in S}

PageLinks == SeqsUpTo(LinkPool, MaxLinks)

\* soup.find_all('link', type=...)
rss_links(links) == SelectSeq(links, TypeMatches)

\* link['href'] raises KeyError on a link without href
LinkWithoutHref(links) ==
    \E k \in 1..Len(rss_links(links)) : rss_links(links)[k].href = <<>>

common_paths == <<"feed", "rss", "podcast.xml", "episodes.xml">>

potential_feeds(url, links) ==
    [k \in 1..Len(rss_links(links)) |-> urljoin(url, rss_links(links)[k].href[1])]
    \o [k \in 1..Len(common_paths) |->
          urljoin(url, Href("root", "", <<common_paths[k]>>))]

\* has_audio = any(any(... for entry ... for enc ...)): the inner any()
\* returns a bool, and any() of a bool raises TypeError
has_audio(entries) ==
    LET inner == \E i \in 1..Len(entries) : HasAudioEnclosure(entries[i])
    IN [raised |-> TRUE, value |-> inner]

\* what the candidates serve
CandidateResponses ==
    { Response(TRUE, 0, 0, FALSE, <<>>),
      Response(FALSE, 404, 1000, FALSE, <<>>),
      Response(FALSE, 200, 1000, TRUE, <<EntryA>>),
      Response(FALSE, 200, 1000, FALSE, <<>>),
      Response(FALSE, 200, 1000, FALSE, <<EntryE>>),
      Response(FALSE, 200, 1000, FALSE, <<EntryA>>),
      Response(FALSE, 200, MAX_FEED_SIZE + 1, FALSE, <<EntryA>>) }

Idle ==
    [pc |-> "idle", url |-> Url("", <<>>), links |-> <<>>, raised |-> FALSE,
     potential_feeds |-> <<>>, i |-> 0, valid_podcast_feeds |-> <<>>,
     ret |-> <<>>, fetched |-> <<>>, parsed |-> {}, expected |-> <<>>,
     bigkept |-> FALSE]

\* requests.get(url), the page parse and the candidate list
DiscoverStart(url, resp, links) ==
    /\ disc.pc = "idle"
    /\ disc' =
         IF FetchFails(resp) \/ LinkWithoutHref(links)
         THEN [disc EXCEPT !.pc = "done", !.url = url, !.links = links,
                           !.raised = TRUE, !.ret = <<>>]
         ELSE [disc EXCEPT !.pc = "loop", !.url = url, !.links = links,
                           !.potential_feeds = potential_feeds(url, links),
                           !.i = 1]
    /\ UNCHANGED <<db, last, ingested, lastw, web, session, tx, lock, serial>>

\* one pass of the validation loop: fetch the candidate, parse it, test it
DiscoverCandidate(resp) ==
    /\ disc.pc = "loop"
    /\ disc.i <= Len(disc.potential_feeds)
    /\ LET feed_url == disc.potential_feeds[disc.i]
           parsed == ~FetchFails(resp)
           tested == parsed /\ ~resp.bozo /\ resp.entries # <<>>
           kept == tested /\ ~has_audio(resp.entries).raised
                          /\ has_audio(resp.entries).value
       IN disc' =
            [disc EXCEPT
               !.i = disc.i + 1,
               !.fetched = Append(disc.fetched, feed_url),
               !.parsed = IF parsed THEN disc.parsed \cup {resp.size}
                          ELSE disc.parsed,
               !.valid_podcast_feeds =
                   IF kept THEN Append(disc.valid_podcast_feeds, feed_url)
                   ELSE disc.valid_podcast_feeds,
               !.expected =
                   IF Classify(resp) = "valid" THEN Append(disc.expected, feed_url)
                   ELSE disc.expected,
               !.bigkept = disc.bigkept \/ (kept /\ resp.size > MAX_FEED_SIZE)]
    /\ UNCHANGED <<db, last, ingested, lastw, web, session, tx, lock, serial>>

DiscoverReturn ==
    /\ disc.pc = "loop"
    /\ disc.i > Len(disc.potential_feeds)
    /\ disc' = [disc EXCEPT !.pc = "done", !.ret = disc.valid_podcast_feeds]
    /\ UNCHANGED <<db, last, ingested, lastw, web, session, tx, lock, serial>>

InitDiscover ==
    /\ db = init_db
    /\ last = NoCall
    /\ ingested = {}
    /\ lastw = [g \in Guids |-> <<>>]
    /\ web = <<>>
    /\ session = NoSession
    /\ disc = Idle
    /\ tx = [calls |-> 0, of |-> <<>>]
    /\ lock = 0
    /\ serial = init_db

PageResponses ==
    { Response(FALSE, 200, 1000, FALSE, <<>>),
      Response(FALSE, 404, 1000, FALSE, <<>>),
      Response(TRUE, 0, 0, FALSE, <<>>) }

NextDiscover ==
    \/ \E url \in PageUrls, resp \in PageResponses, links \in PageLinks :
          DiscoverStart(url, resp, links)
    \/ \E resp \in CandidateResponses : DiscoverCandidate(resp)
    \/ DiscoverReturn

SpecDiscover == InitDiscover /\ [][NextDiscover]_vars

(***************************************************************************)
(* Properties of discovery.                                                *)
(***************************************************************************)
RECURSIVE DedupFirstSeen(_, _)
DedupFirstSeen(q, seen) ==
    IF q = <<>> THEN <<>>
    ELSE IF Head(q) \in seen THEN DedupFirstSeen(Tail(q), seen)
    ELSE <<Head(q)>> \o DedupFirstSeen(Tail(q), seen \cup {Head(q)})

NoDuplicates(q) == \A i, j \in 1..Len(q) : q[i] = q[j] => i = j

\* C4 as claimed: the candidate list is the explicit links in first-seen
\* order followed by the four guessed paths, each URL once, and no URL is
\* fetched twice
C4_CandidatesDeduplicated ==
    disc.pc \in {"loop", "done"} /\ ~disc.raised =>
        /\ disc.potential_feeds =
              DedupFirstSeen(potential_feeds(disc.url, disc.links), {})
        /\ NoDuplicates(disc.fetched)

\* C6 as claimed: no body longer than the ceiling reaches the feed parser
\* or is reported as a confirmed feed
C6_SizeCeiling ==
    /\ \A size \in disc.parsed : size <= MAX_FEED_SIZE
    /\ ~disc.bigkept

\* C9 as claimed: discover returns the candidates whose fetch succeeded and
\* whose feed is valid, in candidate order, and the empty sequence when the
\* page cannot be fetched
C9_ReturnsValidCandidates ==
    disc.pc = "done" =>
        disc.ret = (IF disc.raised THEN <<>> ELSE disc.expected)


(***************************************************************************)
(* Concurrent ingests of one feed URL.  Each call runs the handler a       *)
(* statement at a time on its own connection: the first statement of the   *)
(* call opens the transaction and takes the store's write lock, which the  *)
(* commit or the rollback gives back.  A connection that finds the lock    *)
(* taken gets sqlite3.OperationalError once its busy timeout is over.      *)
(***************************************************************************)
Procs == 1..NProcs

ConcUrl == "f1"

ConcFeeds ==
    { <<EntryA>>, <<EntryB>>, <<EntryA, EntryG>>, <<EntryA, EntryF>>,
      <<EntryE, EntryB>> }

IdleTx == [pc |-> "idle", entries |-> <<>>, i |-> 0, work |-> init_db,
           t |-> 0, times |-> <<>>, result |-> "none"]

\* a store without a write lock
WriteUnlocked(p) == TRUE

\* the write lock is free, or this connection holds it already
CanWrite(p) == lock \in {0, p}

\* the store as the connection sees it when it writes
View(p) == IF lock = p THEN tx.of[p].work ELSE db

Finish(p, result) ==
    [tx EXCEPT !.of[p] = [IdleTx EXCEPT !.result = result]]

\* the fetch and the parse succeeded: the call enters the with block
ConcStart(p, entries) ==
    /\ tx.of[p].pc = "idle"
    /\ tx.calls < MaxCalls
    /\ tx' = [tx EXCEPT !.calls = tx.calls + 1,
                        !.of[p] = [IdleTx EXCEPT !.pc = "loop",
                                                 !.entries = entries, !.i = 1]]
    /\ UNCHANGED <<db, last, ingested, lastw, web, session, disc, lock, serial>>

\* one pass of the entry loop that does not touch the store
ConcSkip(p) ==
    /\ tx.of[p].pc = "loop"
    /\ tx.of[p].i <= Len(tx.of[p].entries)
    /\ EntryOutcome(tx.of[p].entries[tx.of[p].i]) = "skip"
    /\ tx' = [tx EXCEPT !.of[p].i = tx.of[p].i + 1]
    /\ UNCHANGED <<db, last, ingested, lastw, web, session, disc, lock, serial>>

\* one pass of the entry loop that raises: the with block rolls back
ConcRaise(p) ==
    /\ tx.of[p].pc = "loop"
    /\ tx.of[p].i <= Len(tx.of[p].entries)
    /\ EntryOutcome(tx.of[p].entries[tx.of[p].i]) = "raise"
    /\ tx' = Finish(p, "raised")
    /\ db' = (IF lock = p THEN Rollback(db, tx.of[p].work) ELSE db)
    /\ lock' = (IF lock = p THEN 0 ELSE lock)
    /\ UNCHANGED <<last, ingested, lastw, web, session, disc, serial>>

\* the pass up to the INSERT: guid, audio url and publication date, which
\* reads the clock when the entry has none
ConcDate(p, t) ==
    /\ tx.of[p].pc = "loop"
    /\ tx.of[p].i <= Len(tx.of[p].entries)
    /\ EntryOutcome(tx.of[p].entries[tx.of[p].i]) = "upsert"
    /\ tx' = [tx EXCEPT
                !.of[p].t = IF Undated(tx.of[p].entries[tx.of[p].i])
                            THEN t ELSE 0,
                !.of[p].pc = "insert"]
    /\ UNCHANGED <<db, last, ingested, lastw, web, session, disc, lock, serial>>

\* the INSERT OR REPLACE of the episode, once the connection can write
ConcUpsert(p) ==
    /\ tx.of[p].pc = "insert"
    /\ CanWrite(p)
    /\ tx' = [tx EXCEPT
                !.of[p].work = UpsertEntry(View(p), ConcUrl,
                                           tx.of[p].entries[tx.of[p].i],
                                           tx.of[p].t),
                !.of[p].times = Append(tx.of[p].times, tx.of[p].t),
                !.of[p].i = tx.of[p].i + 1,
                !.of[p].pc = "loop"]
    /\ lock' = p
    /\ UNCHANGED <<db, last, ingested, lastw, web, session, disc, serial>>

\* after the loop: the arguments of the rss_sources statement read the clock
ConcNow(p, t) ==
    /\ tx.of[p].pc = "loop"
    /\ tx.of[p].i > Len(tx.of[p].entries)
    /\ tx' = [tx EXCEPT !.of[p].t = t, !.of[p].pc = "source"]
    /\ UNCHANGED <<db, last, ingested, lastw, web, session, disc, lock, serial>>

\* the rss_sources upsert, once the connection can write
ConcSource(p) ==
    /\ tx.of[p].pc = "source"
    /\ CanWrite(p)
    /\ tx' = [tx EXCEPT
                !.of[p].work = InsertOrReplaceSource(View(p), ConcUrl,
                                                     IsoFormat(Now(tx.of[p].t))),
                !.of[p].times = Append(tx.of[p].times, tx.of[p].t),
                !.of[p].pc = "commit"]
    /\ lock' = p
    /\ UNCHANGED <<db, last, ingested, lastw, web, session, disc, serial>>

\* a statement of the call that has to write while another connection holds
\* the lock until the busy timeout is over: OperationalError, and the call
\* returns False
ConcBusy(p) ==
    /\ tx.of[p].pc \in {"insert", "source"}
    /\ ~CanWrite(p)
    /\ tx' = Finish(p, "busy")
    /\ UNCHANGED <<db, last, ingested, lastw, web, session, disc, lock, serial>>

\* the whole write phase of a call, its statements run at the given times
RECURSIVE WholeCall(_, _, _, _, _)
WholeCall(d, entries, i, times, k) ==
    IF i > Len(entries)
    THEN InsertOrReplaceSource(d, ConcUrl, IsoFormat(Now(times[k])))
    ELSE IF EntryOutcome(entries[i]) = "upsert"
    THEN WholeCall(UpsertEntry(d, ConcUrl, entries[i], times[k]), entries,
                   i + 1, times, k + 1)
    ELSE WholeCall(d, entries, i + 1, times, k)

\* conn.commit()
ConcCommit(p) ==
    /\ tx.of[p].pc = "commit"
    /\ db' = Commit(db, tx.of[p].work)
    /\ serial' = WholeCall(serial, tx.of[p].entries, 1, tx.of[p].times, 1)
    /\ lock' = 0
    /\ tx' = Finish(p, "ok")
    /\ UNCHANGED <<last, ingested, lastw, web, session, disc>>

InitConc ==
    /\ db = init_db
    /\ last = NoCall
    /\ ingested = {}
    /\ lastw = [g \in Guids |-> <<>>]
    /\ web = <<>>
    /\ session = NoSession
    /\ disc = <<>>
    /\ tx = [calls |-> 0, of |-> [p \in Procs |-> IdleTx]]
    /\ lock = 0
    /\ serial = init_db

NextConc ==
    \/ \E p \in Procs, entries \in ConcFeeds : ConcStart(p, entries)
    \/ \E p \in Procs : ConcSkip(p)
    \/ \E p \in Procs : ConcRaise(p)
    \/ \E p \in Procs, t \in Times : ConcDate(p, t)
    \/ \E p \in Procs : ConcUpsert(p)
    \/ \E p \in Procs, t \in Times : ConcNow(p, t)
    \/ \E p \in Procs : ConcSource(p)
    \/ \E p \in Procs : ConcBusy(p)
    \/ \E p \in Procs : ConcCommit(p)

SpecConc == InitConc /\ [][NextConc]_vars

\* C7: the committed store is always what the committed calls give when
\* their write phases run one whole call after another, in commit order;
\* a call that ends without committing leaves the committed store alone
C7_Serialized ==
    /\ [](db = serial)
    /\ [][\A p \in Procs :
            (tx.of[p].pc # "idle" /\ tx'.of[p].result \in {"busy", "raised"})
               => db' = db]_vars

\* two calls overlapped: one committed two episodes while the other, begun
\* before that commit, was turned away by the lock
C7_Witness ==
    \E p, q \in Procs :
       /\ tx.of[p].result = "ok"
       /\ tx.of[q].result = "busy"
       /\ Len(db.podcasts) = 2

====
